---- MODULE Spec2Model ----
(***************************************************************************)
(* Model of the transcoder repository.                                     *)
(*                                                                         *)
(*   Spec        batch_processor.py: the main thread (startup scan), the   *)
(*               watchdog observer thread (on_created / on_moved), the     *)
(*               worker thread (process_queue), the shared queue and lock. *)
(*               The call wait_for_stable_file is one step here; it        *)
(*               touches neither the queue nor the lock.                   *)
(*   FairSpec    Spec with the scheduler's weak fairness for each thread.  *)
(*   ShutdownSpec  Spec with the interrupt signal (Ctrl-C) and the exit    *)
(*               of the process.                                           *)
(*   WorkerSpec  the worker thread alone on a preloaded queue, with        *)
(*               wait_for_stable_file run tick by tick.                    *)
(*   PlanSpec    the three transcoder programs on one source: the probe,   *)
(*               ladder selection, the encoder invocations with their      *)
(*               arguments, the master playlist and the DASH fallback.     *)
(***************************************************************************)
EXTENDS Integers, Sequences, FiniteSets, TLC

(* ------------------------------ bounds -------------------------------- *)

\* number of filesystem events the observer delivers in one run
MaxEvents == 1

\* file sizes a stat call can report are 0..MaxSize
MaxSize == 1

\* exit codes of a failed encoder run are 1..MaxExit
MaxExit == 2

(* ------------------------- program constants -------------------------- *)

\* wait_for_stable_file: `while stable_duration < 10`
StableSamples == 10

\* wait_for_stable_file: `timeout: int = 300`
DefaultTimeout == 300

(* ------------------------------- paths -------------------------------- *)

\* A path is its directory below the watched root, its stem and its suffix.
Path(d, s, e) == [dir |-> d, stem |-> s, ext |-> e]

Paths ==
    { Path("", "a", ".mp4"), Path("", "b", ".mkv"), Path("sub", "a", ".mp4"),
      Path("", "n", ".txt") }

NoPath == Path("", "", "")

video_extensions == {".mp4", ".avi", ".mov", ".mkv", ".wmv", ".flv", ".webm", ".m4v"}

\* the suffix test of on_created, on_moved and process_existing_files
IsVideo(p) == p.ext \in video_extensions

\* input_dir.iterdir() lists the entries of the watched root itself
TopLevel == {p \in Paths : p.dir = ""}

VARIABLES
    processing_queue, \* the pending paths, oldest first
    processing_lock,  \* "free" or the thread holding it
    main_pc,          \* main thread: "scan", "observe", "stopped", "exited", "aborted"
    to_scan,          \* entries iterdir() has not yielded yet
    add_pc,           \* per adding thread: "idle", "call" (blocked on the lock), "cs"
    add_path,         \* per adding thread: the argument of its add_to_queue call
    events,           \* events delivered so far
    last_add,         \* outcome of the last add_to_queue: "none", "appended", "noop"
    accepted,         \* history: paths appended, in order
    dequeued,         \* history: paths popped, in order
    wpc,              \* worker thread position
    video_file,       \* worker local
    gate,             \* how wait_for_stable_file ended for video_file
    stable_duration,  \* wait_for_stable_file local
    last_size,        \* wait_for_stable_file local
    timeout,          \* wait_for_stable_file parameter
    ticks,            \* history: samples taken in this call
    prev_sample,      \* history: the previous sample of this call, -1 if none
    run,              \* history: consecutive samples equal to their predecessor and > 0
    warned,           \* the warning wait_for_stable_file logged: "none", "timeout", "disappeared"
    dir_created,      \* output directory created for video_file
    job_started,      \* transcoder.process() entered for video_file
    hls_outputs,      \* process(): at least one HLS rung was produced
    written,          \* history: output directory and input path of each transcoder constructed
    exc,              \* the exception being handled by process_queue, or "none"
    program,          \* the transcoder script that runs: "none", "simple", "vt", "multi"
    ppc,              \* its position
    src_w,            \* probed width of the source
    src_h,            \* probed height of the source
    profiles,         \* the script's profile table, in its order
    format,           \* multi_bitrate_transcoder.py: --format
    selected,         \* what the last filter_profiles call returned
    planned,          \* the jobs whose rungs are fixed: subset of {"hls", "dash"}
    hls_rungs,        \* rungs scaled and encoded for HLS
    dash_rungs,       \* rungs scaled and encoded for DASH
    hls_res,          \* result of the combined HLS encoder run
    combined_res,     \* result of the combined DASH encoder run
    fallback_res,     \* result of the fallback DASH encoder run
    dash_error,       \* the error generate_dash_manifest raised to its caller
    src_audio,        \* the source has an audio stream
    has_audio,        \* multi_bitrate_transcoder.py: has_audio
    probed,           \* outcome of the probe: "none", "ok", "failed"
    jobs,             \* history: the encoder invocations, in order
    hls_completed,    \* hls_outputs: the profiles whose HLS run succeeded, in order
    master,           \* the stream entries written to hls/master.m3u8
    plan_exc          \* the exception that ended the script, or "none"

queue_vars == <<processing_queue, processing_lock, main_pc, to_scan, add_pc, add_path,
                events, last_add, accepted, dequeued>>

adder_vars == <<main_pc, to_scan, add_pc, add_path, events, last_add>>

gate_vars == <<gate, stable_duration, last_size, timeout, ticks, prev_sample, run, warned>>

job_vars == <<dir_created, job_started, hls_outputs, written>>

worker_vars == <<wpc, video_file, gate_vars, job_vars, exc>>

plan_vars == <<program, ppc, src_w, src_h, profiles, format, selected, planned,
               hls_rungs, dash_rungs, hls_res, combined_res, fallback_res, dash_error,
               src_audio, has_audio, probed, jobs, hls_completed, master, plan_exc>>

vars == <<queue_vars, worker_vars, plan_vars>>

Adders == {"main", "watcher"}

(* ------------------------------ helpers ------------------------------- *)

InQueue(p) == \E i \in 1..Len(processing_queue) : processing_queue[i] = p

\* `with self.processing_lock:` is entered only when nobody holds the lock
LockFreeNoCheck == TRUE

LockFree == processing_lock = "free"

\* add_to_queue, lines 55-56: append unless already pending
EnqueueNoDedup(q, p) == Append(q, p)

Enqueue(q, p) == IF \E i \in 1..Len(q) : q[i] = p THEN q ELSE Append(q, p)

\* process_queue, line 68: pop(0)
PopIndexLast(q) == Len(q)

PopIndex(q) == 1

Remove(q, i) == [j \in 1..(Len(q) - 1) |-> IF j < i THEN q[j] ELSE q[j + 1]]

(* --------------------------- adding threads --------------------------- *)

\* process_existing_files: one iteration of the loop over iterdir()
ScanNext ==
    /\ main_pc = "scan"
    /\ add_pc["main"] = "idle"
    /\ \E p \in to_scan :
         /\ to_scan' = to_scan \ {p}
         /\ IF IsVideo(p)
              THEN /\ add_pc' = [add_pc EXCEPT !["main"] = "call"]
                   /\ add_path' = [add_path EXCEPT !["main"] = p]
              ELSE UNCHANGED <<add_pc, add_path>>
    /\ UNCHANGED <<processing_queue, processing_lock, main_pc, events, last_add,
                   accepted, dequeued, worker_vars>>
    /\ UNCHANGED plan_vars

\* BatchProcessor.start: the scan is over, observer.start()
ObserverStart ==
    /\ main_pc = "scan"
    /\ add_pc["main"] = "idle"
    /\ to_scan = {}
    /\ main_pc' = "observe"
    /\ UNCHANGED <<processing_queue, processing_lock, to_scan, add_pc, add_path, events, last_add,
                   accepted, dequeued, worker_vars>>
    /\ UNCHANGED plan_vars

\* on_created / on_moved: the observer thread dispatches one event
OnEvent ==
    /\ main_pc = "observe"
    /\ add_pc["watcher"] = "idle"
    /\ events < MaxEvents
    /\ events' = events + 1
    /\ \E p \in Paths, is_directory \in BOOLEAN :
         IF ~is_directory /\ IsVideo(p)
           THEN /\ add_pc' = [add_pc EXCEPT !["watcher"] = "call"]
                /\ add_path' = [add_path EXCEPT !["watcher"] = p]
           ELSE UNCHANGED <<add_pc, add_path>>
    /\ UNCHANGED <<processing_queue, processing_lock, main_pc, to_scan, last_add,
                   accepted, dequeued, worker_vars>>
    /\ UNCHANGED plan_vars

\* add_to_queue, line 54: acquire the lock
AddAcquire(a) ==
    /\ add_pc[a] = "call"
    /\ LockFree
    /\ processing_lock' = a
    /\ add_pc' = [add_pc EXCEPT ![a] = "cs"]
    /\ UNCHANGED <<processing_queue, main_pc, to_scan, add_path, events, last_add,
                   accepted, dequeued, worker_vars>>
    /\ UNCHANGED plan_vars

\* add_to_queue, lines 55-57: test, append, leave the with block
AddBody(a) ==
    /\ add_pc[a] = "cs"
    /\ processing_queue' = Enqueue(processing_queue, add_path[a])
    /\ last_add' = IF processing_queue' = processing_queue THEN "noop" ELSE "appended"
    /\ accepted' = IF processing_queue' = processing_queue
                     THEN accepted
                     ELSE Append(accepted, add_path[a])
    /\ processing_lock' = "free"
    /\ add_pc' = [add_pc EXCEPT ![a] = "idle"]
    /\ add_path' = [add_path EXCEPT ![a] = NoPath]
    /\ UNCHANGED <<main_pc, to_scan, events, dequeued, worker_vars>>
    /\ UNCHANGED plan_vars

(* --------------------------- worker thread ---------------------------- *)

\* process_queue, line 63: acquire the lock
WAcquire ==
    /\ wpc = "poll"
    /\ LockFree
    /\ processing_lock' = "worker"
    /\ wpc' = "cs"
    /\ UNCHANGED <<processing_queue, adder_vars, accepted, dequeued, video_file,
                   gate_vars, job_vars, exc>>
    /\ UNCHANGED plan_vars

\* process_queue, lines 64-65: the queue is empty, time.sleep(5) inside the with block
WSleep ==
    /\ wpc = "cs"
    /\ processing_queue = <<>>
    /\ wpc' = "sleep"
    /\ UNCHANGED <<queue_vars, video_file, gate_vars, job_vars, exc>>
    /\ UNCHANGED plan_vars

\* process_queue, line 66: continue leaves the with block
WWake ==
    /\ wpc = "sleep"
    /\ processing_lock' = "free"
    /\ wpc' = "poll"
    /\ UNCHANGED <<processing_queue, adder_vars, accepted, dequeued, video_file,
                   gate_vars, job_vars, exc>>
    /\ UNCHANGED plan_vars

\* process_queue, line 68, and the entry of wait_for_stable_file, lines 89-92
WPop ==
    /\ wpc = "cs"
    /\ processing_queue # <<>>
    /\ video_file' = processing_queue[PopIndex(processing_queue)]
    /\ processing_queue' = Remove(processing_queue, PopIndex(processing_queue))
    /\ dequeued' = Append(dequeued, video_file')
    /\ processing_lock' = "free"
    /\ wpc' = "wait"
    /\ gate' = "none"
    /\ stable_duration' = 0
    /\ last_size' = 0
    /\ timeout' = DefaultTimeout
    /\ ticks' = 0
    /\ prev_sample' = -1
    /\ run' = 0
    /\ warned' = "none"
    /\ dir_created' = FALSE
    /\ job_started' = FALSE
    /\ hls_outputs' = FALSE
    /\ exc' = "none"
    /\ UNCHANGED <<adder_vars, accepted, written>>
    /\ UNCHANGED plan_vars

(* ----------------------- wait_for_stable_file ------------------------ *)

GateOutcomes == {"Stable", "TimedOut", "Disappeared", "StatError"}

\* exceptions that reach process_queue's handler
Exceptions == {"OSError", "CalledProcessError", "KeyError", "ValueError"}

\* process_queue, line 85: `except Exception` (every kind above derives from it)
CaughtEncoderOnly(e) == e = "CalledProcessError"

Caught(e) == e \in Exceptions

\* where the worker goes when e is raised inside the try block
OnRaise(e) == IF Caught(e) THEN "except" ELSE "dead"

\* process_queue, lines 71-74: the call returned (its result is not looked at)
AfterWaitDropTimedOut(g) == IF g = "TimedOut" THEN "poll" ELSE "construct"

AfterWait(g) == "construct"

\* the warning each exit of wait_for_stable_file logs (lines 107, 111)
Warning(g) ==
    CASE g = "TimedOut" -> "timeout"
      [] g = "Disappeared" -> "disappeared"
      [] OTHER -> "none"

\* line 97: the sample counts as stable
IsStableSampleAnySize(current_size, last) == current_size = last

IsStableSample(current_size, last) == current_size = last /\ current_size > 0

\* line 94: the loop condition
LoopAgain(sd) == sd < StableSamples

\* line 106: `if timeout <= 0`
ExpiredBelowZero(t) == t < 0

Expired(t) == t <= 0

\* the worker leaves wait_for_stable_file with outcome g
LeaveGate(g) ==
    /\ gate' = g
    /\ warned' = Warning(g)
    /\ IF g = "StatError"
         THEN /\ exc' = "OSError"
              /\ wpc' = OnRaise("OSError")
         ELSE /\ exc' = exc
              /\ wpc' = AfterWait(g)

\* lines 96-108: one iteration whose stat call reported current_size
TickSample(current_size) ==
    LET stable == IsStableSample(current_size, last_size)
        sd == IF stable THEN stable_duration + 1 ELSE 0
    IN  /\ stable_duration' = sd
        /\ last_size' = IF stable THEN last_size ELSE current_size
        /\ timeout' = timeout - 1
        /\ ticks' = ticks + 1
        /\ run' = IF current_size = prev_sample /\ current_size > 0 THEN run + 1 ELSE 0
        /\ prev_sample' = current_size
        /\ IF Expired(timeout')
             THEN LeaveGate("TimedOut")
             ELSE IF ~LoopAgain(sd)
                    THEN LeaveGate("Stable")
                    ELSE UNCHANGED <<gate, warned, exc, wpc>>

\* lines 110-112: stat raised FileNotFoundError
TickNotFound ==
    /\ LeaveGate("Disappeared")
    /\ UNCHANGED <<stable_duration, last_size, timeout, ticks, prev_sample, run>>

\* line 96: stat raised another OSError (PermissionError), which the
\* function does not catch
TickStatError ==
    /\ LeaveGate("StatError")
    /\ UNCHANGED <<stable_duration, last_size, timeout, ticks, prev_sample, run>>

\* wait_for_stable_file, lines 94-112: one iteration of the loop
Tick ==
    /\ wpc = "wait"
    /\ \/ \E current_size \in 0..MaxSize : TickSample(current_size)
       \/ TickNotFound
       \/ TickStatError
    /\ UNCHANGED <<queue_vars, video_file, job_vars>>
    /\ UNCHANGED plan_vars

\* wait_for_stable_file, lines 89-112, as one step: the whole call
WaitCall ==
    /\ wpc = "wait"
    /\ \E g \in GateOutcomes : LeaveGate(g)
    /\ UNCHANGED <<queue_vars, video_file, job_vars,
                   stable_duration, last_size, timeout, ticks, prev_sample, run>>
    /\ UNCHANGED plan_vars

(* ------------------- process_queue: the transcoding ------------------- *)

\* the frame of the finished wait_for_stable_file call is gone: its locals,
\* and the history kept about the call, are back at their initial values
CallOver ==
    /\ stable_duration' = 0
    /\ last_size' = 0
    /\ timeout' = DefaultTimeout
    /\ ticks' = 0
    /\ prev_sample' = -1
    /\ run' = 0

\* the worker raises e inside the try block
Raise(e) ==
    /\ exc' = e
    /\ wpc' = OnRaise(e)

\* process_queue, lines 74-75: output_base_dir / video_file.stem, as the part
\* below output_base_dir
video_output_dir(p) == p.stem

\* process_queue, lines 74-80: VideoTranscoder(...) creates the output directory
Construct ==
    /\ wpc = "construct"
    /\ \/ /\ dir_created' = TRUE
          /\ written' = written \cup {[dir |-> video_output_dir(video_file),
                                       path |-> video_file]}
          /\ wpc' = "probe"
          /\ exc' = exc
       \/ /\ Raise("OSError")
          /\ UNCHANGED <<dir_created, written>>
    /\ CallOver
    /\ UNCHANGED <<queue_vars, video_file, gate, warned, job_started, hls_outputs>>
    /\ UNCHANGED plan_vars

\* process_queue, line 81, and process(), line 277: get_video_info
Probe ==
    /\ wpc = "probe"
    /\ job_started' = TRUE
    /\ \/ /\ wpc' = "hls"
          /\ exc' = exc
       \/ \E e \in {"CalledProcessError", "KeyError"} : Raise(e)
    /\ UNCHANGED <<queue_vars, video_file, gate_vars, dir_created, hls_outputs, written>>
    /\ UNCHANGED plan_vars

\* process(), line 280: create_hls_streams; a failed rung is logged and skipped
Hls ==
    /\ wpc = "hls"
    /\ \/ /\ \E some \in BOOLEAN :
               /\ hls_outputs' = some
               /\ wpc' = IF some THEN "master" ELSE "dash"
          /\ exc' = exc
       \/ /\ Raise("OSError")
          /\ UNCHANGED hls_outputs
    /\ UNCHANGED <<queue_vars, video_file, gate_vars, dir_created, job_started, written>>
    /\ UNCHANGED plan_vars

\* process(), lines 282-284: create_master_hls_playlist
Master ==
    /\ wpc = "master"
    /\ \/ /\ wpc' = "dash"
          /\ exc' = exc
       \/ \E e \in {"OSError", "ValueError"} : Raise(e)
    /\ UNCHANGED <<queue_vars, video_file, gate_vars, job_vars>>
    /\ UNCHANGED plan_vars

\* process(), line 287: create_dash_streams; a failed encoder run returns None
Dash ==
    /\ wpc = "dash"
    /\ \/ /\ wpc' = "players"
          /\ exc' = exc
       \/ Raise("OSError")
    /\ UNCHANGED <<queue_vars, video_file, gate_vars, job_vars>>
    /\ UNCHANGED plan_vars

\* process(), lines 290-311, and process_queue, line 83
Players ==
    /\ wpc = "players"
    /\ \/ /\ wpc' = "poll"
          /\ exc' = exc
       \/ Raise("OSError")
    /\ UNCHANGED <<queue_vars, video_file, gate_vars, job_vars>>
    /\ UNCHANGED plan_vars

\* process_queue, lines 85-87: log the error, time.sleep(1), loop
ErrorSleep ==
    /\ wpc = "except"
    /\ wpc' = "poll"
    /\ CallOver
    /\ UNCHANGED <<queue_vars, video_file, gate, warned, job_vars, exc>>
    /\ UNCHANGED plan_vars

(* ------------------------ transcoder programs ------------------------- *)

Profile(n, w, h) == [name |-> n, width |-> w, height |-> h]

\* simple_transcoder.py, lines 23-29: self.profiles
SimpleProfiles ==
    << Profile("240p", 426, 240), Profile("360p", 640, 360), Profile("480p", 854, 480),
       Profile("720p", 1280, 720), Profile("1080p", 1920, 1080) >>

\* video_transcoder.py, lines 37-43: self.profiles
VTProfiles ==
    << Profile("1080p", 1920, 1080), Profile("720p", 1280, 720), Profile("480p", 854, 480),
       Profile("360p", 640, 360), Profile("240p", 426, 240) >>

\* multi_bitrate_transcoder.py, lines 7-13 and 258-265: ladder
MultiLadder ==
    << Profile("240p", 426, 240), Profile("360p", 640, 360), Profile("480p", 854, 480),
       Profile("720p", 1280, 720), Profile("1080p", 1920, 1080) >>

Names == {"240p", "360p", "480p", "720p", "1080p"}

\* simple_transcoder.py, lines 520-524: --profiles keeps the named entries in
\* the table's order; an empty list keeps the table
ProfileTables ==
    { SelectSeq(SimpleProfiles, LAMBDA q : q.name \in S) : S \in (SUBSET Names) \ {{}} }

\* resolutions a probe can report
SrcWidths == {320, 426, 640, 1280, 1920}

SrcHeights == {200, 240, 360, 720, 1080}

\* the test of filter_profiles (line 109), of create_hls_streams (video_transcoder.py,
\* lines 87-88, negated) and of create_dash_streams (lines 141-142)
FitsWidthOnly(q, w, h) == q.width <= w

Fits(q, w, h) == q.width <= w /\ q.height <= h

\* min(self.profiles.items(), key=width): the first entry of least width
RECURSIVE MinByWidth(_)
MinByWidth(T) ==
    IF Len(T) = 1
      THEN T[1]
      ELSE LET m == MinByWidth(Tail(T))
           IN  IF T[1].width <= m.width THEN T[1] ELSE m

\* simple_transcoder.py, lines 98-118: filter_profiles
filter_profiles(T, w, h) ==
    LET filtered_profiles == SelectSeq(T, LAMBDA q : Fits(q, w, h))
    IN  IF filtered_profiles = <<>> THEN <<MinByWidth(T)>> ELSE filtered_profiles

\* video_transcoder.py, lines 85-90 and 139-143: the profiles not skipped
valid_profiles(T, w, h) == SelectSeq(T, LAMBDA q : Fits(q, w, h))

\* an encoder run: exit code and captured diagnostic
Ok == [code |-> 0, diag |-> ""]

NotRun == [code |-> -1, diag |-> ""]

Diags == {"stderr-1", "stderr-2"}

Failures == [code : 1..MaxExit, diag : Diags]

Results == {Ok} \cup Failures

\* generate_dash_manifest, line 235: `raise e`, e the combined run's error
SurfacedFallback(e, e2) == e2

Surfaced(e, e2) == e

batch_vars == <<queue_vars, worker_vars>>

\* a bitrate string is the sequence of its characters
Chars(a, b, c, d, e) == SelectSeq(<<a, b, c, d, e>>, LAMBDA ch : ch # "")

Rate(v, a) == [bitrate |-> v, audio_bitrate |-> a]

\* simple_transcoder.py, lines 23-29: 'bitrate' and 'audio_bitrate' of self.profiles
SimpleRates ==
    [n \in Names |->
        CASE n = "240p" -> Rate(Chars("4", "0", "0", "k", ""), Chars("6", "4", "k", "", ""))
          [] n = "360p" -> Rate(Chars("8", "0", "0", "k", ""), Chars("9", "6", "k", "", ""))
          [] n = "480p" -> Rate(Chars("1", "2", "0", "0", "k"), Chars("1", "2", "8", "k", ""))
          [] n = "720p" -> Rate(Chars("2", "5", "0", "0", "k"), Chars("1", "2", "8", "k", ""))
          [] OTHER      -> Rate(Chars("4", "5", "0", "0", "k"), Chars("1", "9", "2", "k", ""))]

\* video_transcoder.py, lines 37-43: 'bitrate' and 'audio_bitrate' of self.profiles
VTRates ==
    [n \in Names |->
        CASE n = "1080p" -> Rate(Chars("5", "M", "", "", ""), Chars("1", "9", "2", "k", ""))
          [] n = "720p"  -> Rate(Chars("3", "M", "", "", ""), Chars("1", "2", "8", "k", ""))
          [] n = "480p"  -> Rate(Chars("1", ".", "5", "M", ""), Chars("1", "2", "8", "k", ""))
          [] n = "360p"  -> Rate(Chars("8", "0", "0", "k", ""), Chars("9", "6", "k", "", ""))
          [] OTHER       -> Rate(Chars("4", "0", "0", "k", ""), Chars("6", "4", "k", "", ""))]

\* multi_bitrate_transcoder.py, lines 7-13: 'bitrate' of the ladder; the audio
\* bitrate is the '128k' of lines 85 and 194
MultiRates ==
    [n \in Names |->
        CASE n = "240p" -> Rate(Chars("4", "0", "0", "k", ""), Chars("1", "2", "8", "k", ""))
          [] n = "360p" -> Rate(Chars("8", "0", "0", "k", ""), Chars("1", "2", "8", "k", ""))
          [] n = "480p" -> Rate(Chars("1", "5", "0", "0", "k"), Chars("1", "2", "8", "k", ""))
          [] n = "720p" -> Rate(Chars("3", "0", "0", "0", "k"), Chars("1", "2", "8", "k", ""))
          [] OTHER      -> Rate(Chars("5", "0", "0", "0", "k"), Chars("1", "2", "8", "k", ""))]

\* self.profiles[profile_name] / level, by script
Rates(prog) ==
    CASE prog = "simple" -> SimpleRates
      [] prog = "vt" -> VTRates
      [] OTHER -> MultiRates

(* ----------------------- bitrate strings to numbers -------------------- *)

Digits == <<"0", "1", "2", "3", "4", "5", "6", "7", "8", "9">>

IsDigit(ch) == \E d \in 1..Len(Digits) : Digits[d] = ch

DigitValue(ch) == (CHOOSE d \in 1..Len(Digits) : Digits[d] = ch) - 1

\* str.replace(old, new) for a one-character old
RECURSIVE replace(_, _, _)
replace(s, old, new) ==
    IF s = <<>>
      THEN <<>>
      ELSE (IF Head(s) = old THEN new ELSE <<Head(s)>>) \o replace(Tail(s), old, new)

RECURSIVE DecimalValue(_)
DecimalValue(s) ==
    IF s = <<>>
      THEN 0
      ELSE DecimalValue(SubSeq(s, 1, Len(s) - 1)) * Len(Digits) + DigitValue(s[Len(s)])

\* int(str): the value of a non-empty string of decimal digits, ValueError
\* for the strings of the tables that hold any other character
int(s) ==
    IF s # <<>> /\ \A i \in 1..Len(s) : IsDigit(s[i])
      THEN [exc |-> "none", value |-> DecimalValue(s)]
      ELSE [exc |-> "ValueError", value |-> 0]

Thousand == <<"0", "0", "0">>

Million == <<"0", "0", "0", "0", "0", "0">>

\* video_transcoder.py, lines 209-211: video_bw, audio_bw, total_bw
VTBandwidth(rate) ==
    LET video_bw == int(replace(replace(rate.bitrate, "M", Million), "k", Thousand))
        audio_bw == int(replace(rate.audio_bitrate, "k", Thousand))
    IN  IF video_bw.exc # "none" THEN video_bw
        ELSE IF audio_bw.exc # "none" THEN audio_bw
        ELSE [exc |-> "none", value |-> video_bw.value + audio_bw.value]

\* simple_transcoder.py, lines 231 and 239: the sort key and video_bw
SimpleVideoBw(rate) == int(replace(rate.bitrate, "k", Thousand))

\* simple_transcoder.py, lines 239-241: video_bw, audio_bw, total_bw
SimpleBandwidth(rate) ==
    LET video_bw == SimpleVideoBw(rate)
        audio_bw == int(replace(rate.audio_bitrate, "k", Thousand))
    IN  IF video_bw.exc # "none" THEN video_bw
        ELSE IF audio_bw.exc # "none" THEN audio_bw
        ELSE [exc |-> "none", value |-> video_bw.value + audio_bw.value]

(* ----------------------------- encoder jobs ---------------------------- *)

\* One encoder invocation, by the arguments the scripts build:
\*   format   "hls" or "dash"
\*   kind     "rung" (one profile), "combined" (a ladder), "fallback"
\*   rungs    the profiles it encodes
\*   vmaps    the video streams it maps with -map, in order
\*   vkeys    the -b:v parameters: stream index (-1 for a bare -b:v) and value
\*   amaps    how many times it maps the source audio with -map
\*   acodecs  how many audio codec parameters (-c:a, -c:a:i) it carries
\*   vsm      the entries of -var_stream_map: video index, audio index or -1
Job(f, k, r, vm, vk, am, ac, sm) ==
    [format |-> f, kind |-> k, rungs |-> r, vmaps |-> vm, vkeys |-> vk,
     amaps |-> am, acodecs |-> ac, vsm |-> sm]

Stream(l, i) == [label |-> l, i |-> i]

Key(i, b) == [i |-> i, bitrate |-> b]

\* both create_hls_streams, the cmd list (video_transcoder.py, lines 98-113;
\* simple_transcoder.py, lines 137-149): one profile, no -map, bare -b:v and -c:a
RungJob(prog, q) ==
    Job("hls", "rung", <<q>>, <<>>, <<Key(-1, Rates(prog)[q.name].bitrate)>>, 0, 1, <<>>)

\* simple_transcoder.py, create_dash_stream, lines 176-196: -map 0:v:0 and the
\* parameters -b:v:{i} per enumerated profile, then -map 0:a:0 and -c:a once
SimpleDashJob(P) ==
    Job("dash", "combined", P,
        [k \in 1..Len(P) |-> Stream("0:v:0", 0)],
        [k \in 1..Len(P) |-> Key(k - 1, SimpleRates[P[k].name].bitrate)],
        1, 1, <<>>)

\* video_transcoder.py, lines 139-143: the 0-based positions in self.profiles
\* of the profiles that fit, as enumerate numbers them
valid_indices(T, w, h) ==
    SelectSeq([k \in 1..Len(T) |-> k - 1], LAMBDA i : Fits(T[i + 1], w, h))

\* video_transcoder.py, create_dash_streams, lines 145-174: -map [v{i}out]
\* (or [v0out] for a single profile) and -b:v:{i} with i the position in
\* self.profiles, then -map 0:a and -c:a once
VTDashJob(T, w, h) ==
    LET valid == valid_indices(T, w, h)
    IN  Job("dash", "combined", [k \in 1..Len(valid) |-> T[valid[k] + 1]],
            [k \in 1..Len(valid) |->
                Stream("vout", IF Len(valid) > 1 THEN valid[k] ELSE 0)],
            [k \in 1..Len(valid) |-> Key(valid[k], VTRates[T[valid[k] + 1].name].bitrate)],
            1, 1, <<>>)

\* transcode_to_multibitrate, lines 30-37: var_stream_map
var_stream_map_one_audio(n, audio) == [k \in 1..n |-> [v |-> k - 1, a |-> IF audio THEN 0 ELSE -1]]

var_stream_map(n, audio) == [k \in 1..n |-> [v |-> k - 1, a |-> IF audio THEN k - 1 ELSE -1]]

\* transcode_to_multibitrate, lines 57-98: the HLS argument list
MultiHlsJob(L, audio) ==
    Job("hls", "combined", L,
        [k \in 1..Len(L) |-> Stream("v", k - 1)],
        [k \in 1..Len(L) |-> Key(k - 1, MultiRates[L[k].name].bitrate)],
        IF audio THEN Len(L) ELSE 0,
        IF audio THEN Len(L) ELSE 0,
        var_stream_map(Len(L), audio))

\* generate_dash_manifest, lines 167-204: the DASH argument list
MultiDashJob(L, audio) ==
    Job("dash", "combined", L,
        [k \in 1..Len(L) |-> Stream("v", k - 1)],
        [k \in 1..Len(L) |-> Key(k - 1, MultiRates[L[k].name].bitrate)],
        IF audio THEN 1 ELSE 0,
        IF audio THEN 1 ELSE 0,
        <<>>)

\* generate_dash_manifest, lines 217-228: simple_args
FallbackJob(L) ==
    Job("dash", "fallback", <<L[1]>>, <<Stream("v", 0)>>,
        <<Key(-1, MultiRates[L[1].name].bitrate)>>, 0, 0, <<>>)

(* --------------------------- master playlist --------------------------- *)

Entry(n, bw) == [name |-> n, bandwidth |-> bw]

\* the elements of s at the positions in ok, in the order of s
Pick(s, ok) ==
    LET idx == SelectSeq([k \in 1..Len(s) |-> k], LAMBDA k : k \in ok)
    IN  [j \in 1..Len(idx) |-> s[idx[j]]]

\* sorted(..., key=..., reverse=True): descending by key, elements of equal
\* key in their input order
InsertReverse(s, x, key) ==
    LET before == SelectSeq(s, LAMBDA y : key[y.name] >= key[x.name])
        after == SelectSeq(s, LAMBDA y : key[y.name] < key[x.name])
    IN  before \o <<x>> \o after

RECURSIVE sorted_reverse(_, _)
sorted_reverse(s, key) ==
    IF s = <<>>
      THEN <<>>
      ELSE InsertReverse(sorted_reverse(SubSeq(s, 1, Len(s) - 1), key), s[Len(s)], key)

\* simple_transcoder.py, lines 229-233: sorted_profiles
unsorted_profiles(done) == done

sorted_profiles(done) ==
    sorted_reverse(done, [n \in Names |-> SimpleVideoBw(SimpleRates[n]).value])

\* the stream entries a master playlist loop writes before a conversion
\* raises, or all of them
RECURSIVE Written(_, _)
Written(done, bw) ==
    IF done = <<>> \/ bw[done[1].name].exc # "none"
      THEN <<>>
      ELSE <<Entry(done[1].name, bw[done[1].name].value)>> \o Written(Tail(done), bw)

\* the exception that ends the loop, "none" if it runs to its end
LoopExc(done, bw) ==
    IF \E k \in 1..Len(done) : bw[done[k].name].exc # "none"
      THEN "ValueError"
      ELSE "none"

(* ------------------------------- actions ------------------------------- *)

src_vars == <<program, src_w, src_h, src_audio, profiles, format>>

dash_vars == <<dash_rungs, combined_res, fallback_res, dash_error>>

\* simple_transcoder.py, get_video_info, lines 49-86, called by process,
\* line 452: a failed ffprobe run or unparsable output ends in sys.exit(1)
SimpleProbe ==
    /\ program = "simple"
    /\ ppc = "probe"
    /\ \E ok \in BOOLEAN :
         /\ probed' = IF ok THEN "ok" ELSE "failed"
         /\ ppc' = IF ok THEN "hls" ELSE "exited"
         /\ plan_exc' = IF ok THEN plan_exc ELSE "SystemExit"
    /\ UNCHANGED <<src_vars, has_audio, selected, planned, hls_rungs, hls_res, dash_vars,
                   jobs, hls_completed, master, batch_vars>>

\* simple_transcoder.py, create_hls_streams, lines 120-165, and process,
\* line 461: `if hls_outputs:`
SimpleHls ==
    /\ program = "simple"
    /\ ppc = "hls"
    /\ selected' = filter_profiles(profiles, src_w, src_h)
    /\ hls_rungs' = selected'
    /\ planned' = planned \cup {"hls"}
    /\ jobs' = jobs \o [k \in 1..Len(selected') |-> RungJob("simple", selected'[k])]
    /\ \E ok \in SUBSET (1..Len(selected')) : hls_completed' = Pick(selected', ok)
    /\ ppc' = IF hls_completed' # <<>> THEN "master" ELSE "dash"
    /\ UNCHANGED <<src_vars, has_audio, probed, hls_res, dash_vars, master, plan_exc,
                   batch_vars>>

\* simple_transcoder.py, create_master_hls_playlist, lines 223-250; nothing
\* in process or main catches what it raises
SimpleMaster ==
    /\ program = "simple"
    /\ ppc = "master"
    /\ \/ /\ master' = Written(sorted_profiles(hls_completed),
                               [n \in Names |-> SimpleBandwidth(SimpleRates[n])])
          /\ plan_exc' = LoopExc(sorted_profiles(hls_completed),
                                 [n \in Names |-> SimpleBandwidth(SimpleRates[n])])
          /\ ppc' = IF plan_exc' = "none" THEN "dash" ELSE "raised"
       \/ /\ master' = master
          /\ plan_exc' = "OSError"
          /\ ppc' = "raised"
    /\ UNCHANGED <<src_vars, has_audio, probed, selected, planned, hls_rungs, hls_res,
                   dash_vars, jobs, hls_completed, batch_vars>>

\* simple_transcoder.py, create_dash_stream, lines 167-221
SimpleDash ==
    /\ program = "simple"
    /\ ppc = "dash"
    /\ selected' = filter_profiles(profiles, src_w, src_h)
    /\ dash_rungs' = selected'
    /\ planned' = planned \cup {"dash"}
    /\ jobs' = Append(jobs, SimpleDashJob(selected'))
    /\ \E r \in Results : combined_res' = r
    /\ ppc' = "done"
    /\ UNCHANGED <<src_vars, has_audio, probed, hls_rungs, hls_res, fallback_res,
                   dash_error, hls_completed, master, plan_exc, batch_vars>>

\* video_transcoder.py, get_video_info, lines 48-76, called by process,
\* line 277: a failed ffprobe run raises CalledProcessError out of process
VTProbe ==
    /\ program = "vt"
    /\ ppc = "probe"
    /\ \E ok \in BOOLEAN :
         /\ probed' = IF ok THEN "ok" ELSE "failed"
         /\ ppc' = IF ok THEN "hls" ELSE "raised"
         /\ plan_exc' = IF ok THEN plan_exc ELSE "CalledProcessError"
    /\ UNCHANGED <<src_vars, has_audio, selected, planned, hls_rungs, hls_res, dash_vars,
                   jobs, hls_completed, master, batch_vars>>

\* video_transcoder.py, create_hls_streams, lines 78-124, and process,
\* line 282: `if hls_outputs:`
VTHls ==
    /\ program = "vt"
    /\ ppc = "hls"
    /\ hls_rungs' = valid_profiles(profiles, src_w, src_h)
    /\ planned' = planned \cup {"hls"}
    /\ jobs' = jobs \o [k \in 1..Len(hls_rungs') |-> RungJob("vt", hls_rungs'[k])]
    /\ \E ok \in SUBSET (1..Len(hls_rungs')) : hls_completed' = Pick(hls_rungs', ok)
    /\ ppc' = IF hls_completed' # <<>> THEN "master" ELSE "dash"
    /\ UNCHANGED <<src_vars, has_audio, probed, selected, hls_res, dash_vars, master,
                   plan_exc, batch_vars>>

\* video_transcoder.py, create_master_hls_playlist, lines 198-218: the
\* entries are written in the order of hls_outputs until a conversion raises
VTMaster ==
    /\ program = "vt"
    /\ ppc = "master"
    /\ \/ /\ master' = Written(hls_completed, [n \in Names |-> VTBandwidth(VTRates[n])])
          /\ plan_exc' = LoopExc(hls_completed, [n \in Names |-> VTBandwidth(VTRates[n])])
          /\ ppc' = IF plan_exc' = "none" THEN "dash" ELSE "raised"
       \/ /\ master' = master
          /\ plan_exc' = "OSError"
          /\ ppc' = "raised"
    /\ UNCHANGED <<src_vars, has_audio, probed, selected, planned, hls_rungs, hls_res,
                   dash_vars, jobs, hls_completed, batch_vars>>

\* video_transcoder.py, create_dash_streams, lines 126-196
VTDash ==
    /\ program = "vt"
    /\ ppc = "dash"
    /\ dash_rungs' = valid_profiles(profiles, src_w, src_h)
    /\ planned' = planned \cup {"dash"}
    /\ jobs' = Append(jobs, VTDashJob(profiles, src_w, src_h))
    /\ \E r \in Results : combined_res' = r
    /\ ppc' = "done"
    /\ UNCHANGED <<src_vars, has_audio, probed, selected, hls_rungs, hls_res,
                   fallback_res, dash_error, hls_completed, master, plan_exc, batch_vars>>

\* multi_bitrate_transcoder.py, __main__, lines 248-250
MultiMain ==
    /\ program = "multi"
    /\ ppc = "main"
    /\ ppc' = IF format \in {"hls", "both"} THEN "probe_hls" ELSE "probe_dash"
    /\ UNCHANGED <<src_vars, has_audio, probed, selected, planned, hls_rungs, hls_res,
                   dash_vars, jobs, hls_completed, master, plan_exc, batch_vars>>

\* transcode_to_multibitrate, lines 17-22, and __main__, lines 252-256: any
\* exception of the probe leaves has_audio False and the script goes on
MultiProbe ==
    /\ program = "multi"
    /\ ppc \in {"probe_hls", "probe_dash"}
    /\ \E ok \in BOOLEAN :
         /\ probed' = IF ok THEN "ok" ELSE "failed"
         /\ has_audio' = (ok /\ src_audio)
    /\ ppc' = IF ppc = "probe_hls" THEN "hls" ELSE "dash"
    /\ UNCHANGED <<src_vars, selected, planned, hls_rungs, hls_res, dash_vars, jobs,
                   hls_completed, master, plan_exc, batch_vars>>

\* transcode_to_multibitrate, lines 24-129: the combined HLS job over the ladder
MultiHls ==
    /\ program = "multi"
    /\ ppc = "hls"
    /\ hls_rungs' = profiles
    /\ planned' = planned \cup {"hls"}
    /\ jobs' = Append(jobs, MultiHlsJob(profiles, has_audio))
    /\ \E r \in Results :
         /\ hls_res' = r
         /\ ppc' = IF r = Ok THEN "dash" ELSE "hls_raised"
         /\ plan_exc' = IF r = Ok THEN plan_exc ELSE "CalledProcessError"
    /\ UNCHANGED <<src_vars, has_audio, probed, selected, dash_vars, hls_completed,
                   master, batch_vars>>

\* generate_dash_manifest, lines 143-213: the combined DASH job over the ladder
DashCombined ==
    /\ program = "multi"
    /\ ppc = "dash"
    /\ dash_rungs' = profiles
    /\ planned' = planned \cup {"dash"}
    /\ jobs' = Append(jobs, MultiDashJob(profiles, has_audio))
    /\ \E r \in Results :
         /\ combined_res' = r
         /\ ppc' = IF r = Ok THEN "dash_done" ELSE "dash_fallback"
    /\ UNCHANGED <<src_vars, has_audio, probed, selected, hls_rungs, hls_res,
                   fallback_res, dash_error, hls_completed, master, plan_exc, batch_vars>>

\* generate_dash_manifest, lines 215-235: the fallback job on the first rung
DashFallback ==
    /\ program = "multi"
    /\ ppc = "dash_fallback"
    /\ jobs' = Append(jobs, FallbackJob(profiles))
    /\ \E r \in Results :
         /\ fallback_res' = r
         /\ IF r = Ok
              THEN /\ ppc' = "dash_done"
                   /\ dash_error' = dash_error
                   /\ plan_exc' = plan_exc
              ELSE /\ ppc' = "dash_raised"
                   /\ dash_error' = Surfaced(combined_res, r)
                   /\ plan_exc' = "CalledProcessError"
    /\ UNCHANGED <<src_vars, has_audio, probed, selected, planned, hls_rungs, dash_rungs,
                   hls_res, combined_res, hls_completed, master, batch_vars>>

(* ------------------------------ shutdown ------------------------------- *)

\* line 37: the worker is a daemon thread, so the interpreter does not wait
\* for it at exit: it ends wherever it is, inside a job or not
Killed(pc) ==
    IF pc \in {"wait", "construct", "probe", "hls", "master", "dash", "players", "except"}
      THEN "killed_in_job"
      ELSE "killed_idle"

\* BatchProcessor.start, lines 134-135: KeyboardInterrupt during
\* process_existing_files is outside the try block; it leaves start() and
\* main() and the process ends with a traceback and a non-zero status
InterruptScan ==
    /\ main_pc = "scan"
    /\ main_pc' = "aborted"
    /\ add_pc' = [add_pc EXCEPT !["main"] = "idle"]
    /\ add_path' = [add_path EXCEPT !["main"] = NoPath]
    /\ processing_lock' = IF processing_lock = "main" THEN "free" ELSE processing_lock
    /\ wpc' = Killed(wpc)
    /\ UNCHANGED <<processing_queue, to_scan, events, last_add, accepted, dequeued,
                   video_file, gate_vars, job_vars, exc>>
    /\ UNCHANGED plan_vars

\* BatchProcessor.start, lines 140-145: KeyboardInterrupt in the sleep loop,
\* observer.stop()
Interrupt ==
    /\ main_pc = "observe"
    /\ main_pc' = "stopped"
    /\ UNCHANGED <<processing_queue, processing_lock, to_scan, add_pc, add_path, events,
                   last_add, accepted, dequeued, worker_vars>>
    /\ UNCHANGED plan_vars

\* BatchProcessor.start, line 147, and main, line 167: observer.join()
\* returns once the observer thread has left its handler, start() and main()
\* return, the process exits with status 0
Exit ==
    /\ main_pc = "stopped"
    /\ add_pc["watcher"] = "idle"
    /\ main_pc' = "exited"
    /\ wpc' = Killed(wpc)
    /\ UNCHANGED <<processing_queue, processing_lock, to_scan, add_pc, add_path, events,
                   last_add, accepted, dequeued, video_file, gate_vars, job_vars, exc>>
    /\ UNCHANGED plan_vars

(* --------------------------- specifications --------------------------- *)

PlanIdle ==
    /\ program = "none"
    /\ ppc = "idle"
    /\ src_w = 0
    /\ src_h = 0
    /\ profiles = <<>>
    /\ format = "both"
    /\ selected = <<>>
    /\ planned = {}
    /\ hls_rungs = <<>>
    /\ dash_rungs = <<>>
    /\ hls_res = NotRun
    /\ combined_res = NotRun
    /\ fallback_res = NotRun
    /\ dash_error = Ok
    /\ src_audio = FALSE
    /\ has_audio = FALSE
    /\ probed = "none"
    /\ jobs = <<>>
    /\ hls_completed = <<>>
    /\ master = <<>>
    /\ plan_exc = "none"

WorkerInit ==
    /\ wpc = "poll"
    /\ video_file = NoPath
    /\ gate = "none"
    /\ stable_duration = 0
    /\ last_size = 0
    /\ timeout = DefaultTimeout
    /\ ticks = 0
    /\ prev_sample = -1
    /\ run = 0
    /\ warned = "none"
    /\ dir_created = FALSE
    /\ job_started = FALSE
    /\ hls_outputs = FALSE
    /\ written = {}
    /\ exc = "none"

\* the state after BatchProcessor.__init__: the worker thread is started, the
\* queue is empty, the input directory holds any of the top-level entries
Init ==
    /\ processing_queue = <<>>
    /\ processing_lock = "free"
    /\ main_pc = "scan"
    /\ to_scan \in SUBSET TopLevel
    /\ add_pc = [a \in Adders |-> "idle"]
    /\ add_path = [a \in Adders |-> NoPath]
    /\ events = 0
    /\ last_add = "none"
    /\ accepted = <<>>
    /\ dequeued = <<>>
    /\ WorkerInit
    /\ PlanIdle

Next ==
    \/ ScanNext
    \/ ObserverStart
    \/ OnEvent
    \/ \E a \in Adders : AddAcquire(a)
    \/ \E a \in Adders : AddBody(a)
    \/ WAcquire
    \/ WSleep
    \/ WWake
    \/ WPop
    \/ WaitCall
    \/ Construct
    \/ Probe
    \/ Hls
    \/ Master
    \/ Dash
    \/ Players
    \/ ErrorSleep

Spec == Init /\ [][Next]_vars

\* the scheduler runs every thread that can take a step: the worker thread,
\* and each adding thread inside add_to_queue. Nothing makes the filesystem
\* deliver events.
WorkerNext ==
    \/ WAcquire \/ WSleep \/ WWake \/ WPop \/ WaitCall
    \/ Construct \/ Probe \/ Hls \/ Master \/ Dash \/ Players \/ ErrorSleep

FairSpec ==
    /\ Spec
    /\ WF_vars(WorkerNext)
    /\ \A a \in Adders : WF_vars(AddAcquire(a) \/ AddBody(a))

\* Spec with the interrupt signal: the user may press Ctrl-C at any moment
ShutdownNext ==
    \/ Next
    \/ InterruptScan
    \/ Interrupt
    \/ Exit

ShutdownSpec == Init /\ [][ShutdownNext]_vars

\* sequences without repetition over the set S
RECURSIVE DistinctSeqs(_)
DistinctSeqs(S) ==
    {<<>>} \cup UNION { { <<x>> \o t : t \in DistinctSeqs(S \ {x}) } : x \in S }

\* the worker thread alone: the scan and the observer have filled the queue
\* before the worker's first poll, and no event follows
WorkerOnlyInit ==
    /\ processing_queue \in DistinctSeqs({p \in Paths : IsVideo(p)})
    /\ processing_lock = "free"
    /\ main_pc = "observe"
    /\ to_scan = {}
    /\ add_pc = [a \in Adders |-> "idle"]
    /\ add_path = [a \in Adders |-> NoPath]
    /\ events = MaxEvents
    /\ last_add = IF processing_queue = <<>> THEN "none" ELSE "appended"
    /\ accepted = processing_queue
    /\ dequeued = <<>>
    /\ WorkerInit
    /\ PlanIdle

WorkerOnlyNext ==
    \/ WAcquire
    \/ WSleep
    \/ WWake
    \/ WPop
    \/ Tick
    \/ Construct
    \/ Probe
    \/ Hls
    \/ Master
    \/ Dash
    \/ Players
    \/ ErrorSleep

WorkerSpec == WorkerOnlyInit /\ [][WorkerOnlyNext]_vars

\* one run of one transcoder script on a probed source
PlanInit ==
    /\ processing_queue = <<>>
    /\ processing_lock = "free"
    /\ main_pc = "scan"
    /\ to_scan = {}
    /\ add_pc = [a \in Adders |-> "idle"]
    /\ add_path = [a \in Adders |-> NoPath]
    /\ events = 0
    /\ last_add = "none"
    /\ accepted = <<>>
    /\ dequeued = <<>>
    /\ WorkerInit
    /\ program \in {"simple", "vt", "multi"}
    /\ src_w \in SrcWidths
    /\ src_h \in SrcHeights
    /\ profiles \in CASE program = "simple" -> ProfileTables
                      [] program = "vt" -> {VTProfiles}
                      [] OTHER -> {MultiLadder}
    /\ format \in IF program = "multi" THEN {"hls", "dash", "both"} ELSE {"both"}
    /\ ppc = IF program = "multi" THEN "main" ELSE "probe"
    /\ selected = <<>>
    /\ planned = {}
    /\ hls_rungs = <<>>
    /\ dash_rungs = <<>>
    /\ hls_res = NotRun
    /\ combined_res = NotRun
    /\ fallback_res = NotRun
    /\ dash_error = Ok
    /\ src_audio \in BOOLEAN
    /\ has_audio = FALSE
    /\ probed = "none"
    /\ jobs = <<>>
    /\ hls_completed = <<>>
    /\ master = <<>>
    /\ plan_exc = "none"

PlanNext ==
    \/ SimpleProbe
    \/ SimpleHls
    \/ SimpleMaster
    \/ SimpleDash
    \/ VTProbe
    \/ VTHls
    \/ VTMaster
    \/ VTDash
    \/ MultiMain
    \/ MultiProbe
    \/ MultiHls
    \/ DashCombined
    \/ DashFallback

PlanSpec == PlanInit /\ [][PlanNext]_vars

(* ------------------------------- claims ------------------------------- *)

\* C1: the pending queue never holds the same path twice, whatever the
\* interleaving of add_to_queue calls and worker pops.
C1_NoDuplicatePending ==
    \A i, j \in 1..Len(processing_queue) : processing_queue[i] = processing_queue[j] => i = j

\* C1 witness: a second add_to_queue of the one pending path was a no-op
C1_Witness ==
    /\ last_add = "noop"
    /\ Len(processing_queue) = 1
    /\ Len(accepted) = 1
    /\ dequeued = <<>>

\* C2: the worker dequeues paths in the order their enqueue was accepted:
\* the sequence of pops is a prefix of the sequence of appends, and what is
\* pending is the rest of it, in the same order.
C2_Fifo ==
    /\ Len(dequeued) <= Len(accepted)
    /\ \A i \in 1..Len(dequeued) : dequeued[i] = accepted[i]
    /\ accepted = dequeued \o processing_queue

\* C2 witness: two distinct paths were dequeued, the second while a third waits
C2_Witness ==
    /\ Len(dequeued) >= 2
    /\ dequeued[1] # dequeued[2]
    /\ Len(accepted) >= 3

\* C3: a thread is inside a queue-accessing section only while it holds the
\* lock, so an enqueue and a dequeue are never both inside theirs.
C3_MutualExclusion ==
    /\ \A a \in Adders : add_pc[a] = "cs" => processing_lock = a
    /\ wpc \in {"cs", "sleep"} => processing_lock = "worker"
    /\ ~ \E a \in Adders : add_pc[a] = "cs" /\ wpc \in {"cs", "sleep"}

\* C3 witness: an add_to_queue call waits for the lock while the worker is
\* inside its section
C3_Witness ==
    \E a \in Adders : add_pc[a] = "call" /\ wpc = "cs" /\ processing_queue # <<>>

\* C4: the counter of wait_for_stable_file is the number of consecutive
\* samples equal to their predecessor and nonzero (any other sample resets
\* it to 0), and when the call returns through the stable exit at least 10
\* such samples, one per tick, have just been taken.
C4_StableOnlyAfterTen ==
    /\ stable_duration = run
    /\ (gate = "Stable" /\ wpc = "construct") =>
           (run >= StableSamples /\ ticks > run)

\* C4 witness: a return through the stable exit whose counter was reset on
\* the way
C4_Witness ==
    /\ gate = "Stable"
    /\ wpc = "construct"
    /\ ticks > StableSamples + 2

\* C5: once the file disappeared during the wait, the worker creates no
\* output directory and starts no transcoding job for it.
C5_DisappearedAbandoned ==
    gate = "Disappeared" => (~dir_created /\ ~job_started)

\* C6: a wait that times out does so after 300 ticks with a warning, and
\* the item goes on to the transcoding pipeline: the worker is about to
\* construct the transcoder, has constructed it, or failed constructing it.
C6_TimedOutProceeds ==
    gate = "TimedOut" =>
        /\ warned = "timeout"
        /\ \/ wpc = "construct" /\ ticks = DefaultTimeout
           \/ dir_created
           \/ exc # "none"

\* C6 witness: the transcoding job of a timed-out item was started
C6_Witness ==
    /\ gate = "TimedOut"
    /\ job_started

\* C7: no failure kills the worker; after a failure it polls again, and
\* every pending path is eventually dequeued and its handling ends.
C7_FailureIsolated ==
    /\ [](wpc # "dead")
    /\ (wpc \in {"wait", "except"}) ~> (wpc = "poll")
    /\ \A p \in Paths : InQueue(p) ~> (video_file = p /\ wpc = "wait")

\* C7 witness: after a failure the worker polls again with a path pending
C7_Witness ==
    /\ exc # "none"
    /\ wpc = "poll"
    /\ processing_queue # <<>>

\* the entries of the table that fit a w x h source
Qualifying(T, w, h) == {i \in 1..Len(T) : T[i].width <= w /\ T[i].height <= h}

\* the non-upscaling invariant with its fallback: every rung is an entry of
\* the table that fits, or nothing fits and the rungs are the one entry of
\* least width
IsLadder(rungs, T, w, h) ==
    /\ \A i \in 1..Len(rungs) : \E j \in 1..Len(T) : rungs[i] = T[j]
    /\ Qualifying(T, w, h) # {} =>
         /\ rungs # <<>>
         /\ \A i \in 1..Len(rungs) : rungs[i].width <= w /\ rungs[i].height <= h
    /\ Qualifying(T, w, h) = {} =>
         /\ Len(rungs) = 1
         /\ \A j \in 1..Len(T) : rungs[1].width <= T[j].width

\* C8: filter_profiles returns only entries of the table that fit the source
\* in both axes when some entry fits, and exactly the entry of least width
\* when none does; for 640x360 and the full table it returns 240p, 360p.
C8_LadderSelection ==
    (program = "simple" /\ "hls" \in planned) =>
        /\ IsLadder(selected, profiles, src_w, src_h)
        /\ (src_w = 640 /\ src_h = 360 /\ profiles = SimpleProfiles) =>
              selected = <<Profile("240p", 426, 240), Profile("360p", 640, 360)>>

\* C8 witness: no entry of a two-entry table fits and the smaller one is returned
C8_Witness ==
    /\ program = "simple"
    /\ "hls" \in planned
    /\ Len(profiles) = 2
    /\ Qualifying(profiles, src_w, src_h) = {}
    /\ Len(selected) = 1

\* C9: in every script, the rungs of every planned job satisfy the ladder
\* invariant for the probed source.
C9_LadderEverywhere ==
    /\ "hls" \in planned => IsLadder(hls_rungs, profiles, src_w, src_h)
    /\ "dash" \in planned => IsLadder(dash_rungs, profiles, src_w, src_h)

\* C10: when the combined DASH run and the fallback run both fail,
\* generate_dash_manifest raises the combined run's error; when the fallback
\* succeeds it raises nothing.
C10_OriginalErrorSurfaced ==
    /\ ppc = "dash_raised" =>
         /\ combined_res \in Failures
         /\ fallback_res \in Failures
         /\ dash_error = combined_res
    /\ (ppc = "dash_done" /\ combined_res \in Failures) =>
         /\ fallback_res = Ok
         /\ dash_error = Ok
    /\ (combined_res \in Failures /\ fallback_res \in Failures) => ppc = "dash_raised"

\* C10 witness: both runs failed, with different exit codes and diagnostics
C10_Witness ==
    /\ ppc = "dash_raised"
    /\ combined_res.code # fallback_res.code
    /\ combined_res.diag # fallback_res.diag

\* the encoder invocations of one format and kind, in order
JobsOf(f, k) == SelectSeq(jobs, LAMBDA j : j.format = f /\ j.kind = k)

\* the script is past its DASH step
DashOver == ppc \in {"done", "dash_done", "dash_raised"}

\* the entry of a non-empty ladder that no other entry is narrower than
Lowest(L) == CHOOSE q \in {L[k] : k \in 1..Len(L)} : \A k \in 1..Len(L) : q.width <= L[k].width

\* C11: in every script, once the DASH step is over, a failed combined DASH
\* job has been followed by exactly one fallback job, submitted right after
\* it and encoding the single lowest-resolution rung of the ladder; after a
\* combined job that succeeded no fallback job was submitted.
C11_DashFallback ==
    /\ (DashOver /\ combined_res \in Failures) =>
          /\ Len(JobsOf("dash", "fallback")) = 1
          /\ jobs[Len(jobs)].kind = "fallback"
          /\ jobs[Len(jobs) - 1].format = "dash"
          /\ jobs[Len(jobs) - 1].kind = "combined"
          /\ jobs[Len(jobs)].rungs = <<Lowest(dash_rungs)>>
    /\ combined_res = Ok => JobsOf("dash", "fallback") = <<>>

\* some rung of the HLS ladder failed to encode: a per-rung run that left no
\* entry in hls_outputs, or the combined run
HlsRungFailed ==
    \/ program \in {"simple", "vt"} /\ "hls" \in planned /\ Len(hls_completed) < Len(hls_rungs)
    \/ hls_res \in Failures

\* C12: in every script, when some rung of the HLS ladder failed to encode,
\* no master playlist is written for the asset (none that lists the rungs
\* that succeeded) and no HLS fallback job is submitted.
C12_HlsAtomic ==
    HlsRungFailed =>
        /\ master = <<>>
        /\ JobsOf("hls", "fallback") = <<>>

\* the encoder invocations of one format that are not a fallback
MainJobs(f) == SelectSeq(jobs, LAMBDA j : j.format = f /\ j.kind # "fallback")

\* C13: in every script and for each format, the encoder is invoked at most
\* once apart from the DASH fallback, with a job that covers all rungs of
\* the ladder; a non-empty HLS ladder gets that one invocation; at most one
\* fallback is submitted, and only for DASH.
C13_OneJobPerFormat ==
    /\ Len(MainJobs("hls")) <= 1
    /\ Len(MainJobs("dash")) <= 1
    /\ \A k \in 1..Len(MainJobs("hls")) : MainJobs("hls")[k].rungs = hls_rungs
    /\ \A k \in 1..Len(MainJobs("dash")) : MainJobs("dash")[k].rungs = dash_rungs
    /\ ("hls" \in planned /\ hls_rungs # <<>>) => Len(MainJobs("hls")) = 1
    /\ Len(JobsOf("dash", "fallback")) <= 1
    /\ JobsOf("hls", "fallback") = <<>>

\* the positions in the -b:v parameters of job j that are keyed by index i
KeysAt(j, i) == {x \in 1..Len(j.vkeys) : j.vkeys[x].i = i}

\* the video parameters of job j are keyed by rung index
KeyedByRung(j) ==
    LET n == Len(j.rungs)
    IN  /\ Len(j.vmaps) = n
        /\ \A x \in 1..Len(j.vkeys) : j.vkeys[x].i \in 0..(n - 1)
        /\ \A k \in 0..(n - 1) :
              /\ Cardinality(KeysAt(j, k)) = 1
              /\ \A x \in KeysAt(j, k) :
                    j.vkeys[x].bitrate = Rates(program)[j.rungs[k + 1].name].bitrate

\* C14: in every combined job of every script, with n the number of its
\* rungs, it maps n video streams, each k in 0..n-1 keys exactly one video
\* parameter set, which carries the bitrate of rung k, and no parameter set
\* is keyed outside 0..n-1.
C14_KeyedByRungIndex ==
    \A x \in 1..Len(jobs) : jobs[x].kind = "combined" => KeyedByRung(jobs[x])

\* job j maps n scaled video streams and pairs them with audio as the probe
\* found it
HlsMapping(j, audio) ==
    LET n == Len(j.rungs)
    IN  /\ Len(j.vmaps) = n
        /\ \A k \in 1..n : j.vmaps[k] = Stream("v", k - 1)
        /\ Len(j.vsm) = n
        /\ audio =>
              /\ j.amaps = n
              /\ \A k \in 1..n : j.vsm[k].v = k - 1 /\ j.vsm[k].a = k - 1
        /\ ~audio =>
              /\ j.amaps = 0
              /\ j.acodecs = 0
              /\ \A k \in 1..n : j.vsm[k].v = k - 1 /\ j.vsm[k].a = -1

C16_DashAudioOnce ==
    \A x \in 1..Len(jobs) :
        (jobs[x].format = "dash" /\ jobs[x].kind = "combined" /\ probed = "ok") =>
            /\ Len(jobs[x].vmaps) = Len(jobs[x].rungs)
            /\ jobs[x].amaps = IF src_audio THEN 1 ELSE 0

\* bits per second of a bitrate string: decimal digits, with an optional
\* decimal point, and a trailing k (x 1000) or M (x 1,000,000)
BitrateToBps(s) ==
    LET mantissa == SubSeq(s, 1, Len(s) - 1)
        unit == IF s[Len(s)] = "M" THEN DecimalValue(<<"1">> \o Million)
                ELSE DecimalValue(<<"1">> \o Thousand)
        point == {k \in 1..Len(mantissa) : mantissa[k] = "."}
        decimals == IF point = {} THEN 0 ELSE Len(mantissa) - (CHOOSE k \in point : TRUE)
        scaled == DecimalValue(SelectSeq(mantissa, LAMBDA ch : ch # "."))
    IN  (scaled * unit) \div DecimalValue(<<"1">> \o [k \in 1..decimals |-> "0"])

\* total bandwidth of the rendition of a profile of the running script
TotalBandwidth(n) ==
    BitrateToBps(Rates(program)[n].bitrate) + BitrateToBps(Rates(program)[n].audio_bitrate)

\* position of profile n among the completed renditions
InputPosition(n) == CHOOSE k \in 1..Len(hls_completed) : hls_completed[k].name = n

\* C17: the entries written to the master playlist are in descending order
\* of total bandwidth, and entries of equal total bandwidth are in the order
\* of the completed renditions they were written from.
C17_MasterDescending ==
    \A i, j \in 1..Len(master) :
        i < j =>
            /\ TotalBandwidth(master[i].name) >= TotalBandwidth(master[j].name)
            /\ TotalBandwidth(master[i].name) = TotalBandwidth(master[j].name) =>
                  InputPosition(master[i].name) < InputPosition(master[j].name)

\* C17 witness: simple_transcoder.py wrote three or more entries, the first
\* of them from the rendition that completed last
C17_Witness ==
    /\ program = "simple"
    /\ Len(master) >= 3
    /\ Len(master) = Len(hls_completed)
    /\ master[1].name = hls_completed[Len(hls_completed)].name

\* the master playlist step ran to its end or raised
MasterOver == master # <<>> \/ plan_exc \in {"ValueError", "OSError"}

\* C18: authoring the master playlist never fails converting a bitrate
\* string of the profile table, every entry it writes carries
\* bps(video bitrate) + bps(audio bitrate) of its profile, with k = x 1000
\* and M = x 1,000,000, and unless the file could not be opened every
\* completed rendition gets its entry.
C18_BandwidthConversion ==
    /\ plan_exc # "ValueError"
    /\ \A k \in 1..Len(master) : master[k].bandwidth = TotalBandwidth(master[k].name)
    /\ (MasterOver /\ plan_exc # "OSError") => Len(master) = Len(hls_completed)

\* C19: after a failure while authoring the master playlist the script goes
\* on to the DASH step: it is about to submit the DASH job or has submitted it.
C19_MasterFailureHlsOnly ==
    (program \in {"simple", "vt"} /\ plan_exc \in {"OSError", "ValueError"}) =>
        (ppc = "dash" \/ "dash" \in planned)

\* C20: in every script, after a probe that failed no encoder job is
\* submitted for the asset and the process is not terminated: the failure
\* is an exception the caller can handle.
C20_ProbeFailureAbortsAsset ==
    probed = "failed" =>
        /\ jobs = <<>>
        /\ plan_exc # "SystemExit"
        /\ ppc = "raised"

\* C24: while the worker is in its empty-queue sleep it does not hold
\* processing_lock, so no add_to_queue call waits for the lock because of
\* a sleeping worker.
C24_NoSleepHoldingLock ==
    wpc = "sleep" =>
        /\ processing_lock # "worker"
        /\ \A a \in Adders : add_pc[a] = "call" => processing_lock # "worker"

\* the formats of the encoder invocations so far
Submitted == {jobs[x].format : x \in 1..Len(jobs)}

\* the formats --format asks for
Requested == IF format = "both" THEN {"hls", "dash"} ELSE {format}

\* C22: no job of a format that was not requested is ever submitted, and a
\* run that ends without an error has submitted a job of every requested
\* format.
C22_FormatSelectsJobs ==
    /\ Submitted \subseteq Requested
    /\ ppc = "dash_done" => Submitted = Requested

\* C26: no output directory receives the artifacts of two distinct input
\* paths: the transcoders constructed for two different paths write to
\* different directories.
C26_OutputDirInjective ==
    \A x, y \in written : x.dir = y.dir => x.path = y.path

\* C27: every iteration of wait_for_stable_file that samples the size uses
\* up one unit of timeout, the loop is left when none remains, and so a call
\* takes at most 300 ticks whatever sizes and stat outcomes it sees.
C27_WaitBounded ==
    /\ ticks + timeout = DefaultTimeout
    /\ ticks <= DefaultTimeout
    /\ wpc = "wait" => timeout >= 1

\* C27 witness: a file that stayed at size zero left the wait through the
\* timeout at tick 300
C27_Witness ==
    /\ gate = "TimedOut"
    /\ wpc = "construct"
    /\ ticks = DefaultTimeout
    /\ prev_sample = 0
    /\ last_size = 0
    /\ stable_duration = 0

\* the worker has dequeued video_file and has not finished handling it
Handling == wpc \in {"wait", "construct", "probe", "hls", "master", "dash", "players", "except"}

\* C23: while the worker is waiting on or transcoding the path it dequeued,
\* that path is not pending again, so the events that name it before its
\* handling ends do not get it transcoded a second time.
C23_NoRequeueWhileHandled ==
    Handling => ~InQueue(video_file)

\* C25: with weak fairness of each thread and none of the lock, every
\* add_to_queue call that waits for the lock eventually gets it and returns,
\* and every pending path is eventually dequeued.
C25_AddEventuallyReturns ==
    /\ \A a \in Adders : (add_pc[a] = "call") ~> (add_pc[a] = "idle")
    /\ \A p \in Paths : InQueue(p) ~> (video_file = p /\ wpc = "wait")

\* C21: the process ends only after an interrupt handled by start(), with
\* status 0, the observer stopped and idle, and never while the worker is
\* waiting on or transcoding a dequeued path.
C21_GracefulShutdown ==
    /\ wpc # "killed_in_job"
    /\ main_pc # "aborted"
    /\ main_pc = "exited" => add_pc["watcher"] = "idle"

====
